---- MODULE Spec2Model ----
(***************************************************************************)
(* Forum discussion coordinator of WorkTest: the LangGraph state machine   *)
(* rag_critic -> web_critic -> moderator_decide -> (rag_critic |           *)
(* moderator_summarize -> save) -> END built by ForumGraph/graph/graph.py, *)
(* with the node bodies of RAGCriticAgent, WebCriticAgent, ModeratorAgent  *)
(* and ForumNodes.  External services (LLM, retrieval, web search,         *)
(* database) are inputs: every outcome they can produce is enumerated.     *)
(***************************************************************************)
EXTENDS Integers, Sequences, FiniteSets, TLC

(* ---------------------------- bounds ---------------------------------- *)

\* largest max_rounds a ForumAgent is constructed with
MaxRounds == 2

\* number of graph supersteps after which the graph run is stopped
\* (the graph library's recursion limit; ainvoke is called without a config)
StepLimit == 8

(* ------------------------- value universes ----------------------------- *)

\* Python None for the Optional[Dict] fields
None == [src |-> "none", round |-> 0, kind |-> "none"]

\* kinds of value a json.loads / error path can put into a comment field:
\*   ok        a non-empty JSON object
\*   empty     a parsed value that is falsy in Python ({}, [], 0, "")
\*   err_parse {"error": "无法解析问题和用户回答", "message": ...}
\*   err_json  {"error": "LLM 返回的 JSON 格式不正确", "raw_response", ...}
\*   err_exc   {"error": "生成评论时发生错误", "exception": ...}
\*   none      JSON null, parsed to None
\* (json.loads(response_text) is applied to whatever text the LLM returned)

\* a critique / evaluation produced by src in round r
Rec(src, r, kind) ==
  IF kind = "none" THEN None ELSE [src |-> src, round |-> r, kind |-> kind]

\* Python truthiness of a comment field (`if rag_comment`, `not rag_comment`)
Truthy(c) == c.kind \notin {"none", "empty"}

\* outcomes of one `await self.llm.ainvoke(messages)` followed by json.loads:
\* the call raises, the text is not JSON, or it parses to some JSON value
LLMOutcomes == {"exception", "bad_json", "ok", "empty", "none"}

\* the enum of output_schema_moderator_decision.next_step
NextStepEnum ==
  {"rag_critic", "web_critic", "moderator_decide", "moderator_summarize", "save", "end"}

\* questions and answers handed to run_discussion
Questions == {"", "q"}
Answers == {"", "a"}

Nodes == {"rag_critic", "web_critic", "moderator_decide", "moderator_summarize", "save"}

VARIABLES
  state,    \* the ForumState dictionary threaded through the graph
  pc,       \* graph position: the node about to run, "end" (END) or "raised"
  steps,    \* supersteps executed by graph.ainvoke
  runs,     \* how many times each node has executed in this discussion
  db,       \* rows inserted into forum_discussions by this discussion
  last,     \* what the last executed node observed before it acted
  clock,    \* the wall clock read by datetime.now()
  replay,   \* the deterministic mock backends of a replayed discussion
  call,     \* one invocation of OpenAILLM._invoke_with_schema
  critique, \* the record a critic's _generate_comment_with_llm returns
  other,    \* a second discussion on the same ForumAgent, while it is not running
  iv        \* the InterviewState of an interview, with its graph position

vars == <<state, pc, steps, runs, db, last, clock, replay, call, critique, other, iv>>

(* --------------------------- pure helpers ------------------------------ *)

\* ForumAgent.run_discussion builds "面试官：{question}\n用户：{user_answer}"
BuildMessage(question, user_answer) ==
  << [tag |-> "interviewer", text |-> question],
     [tag |-> "user", text |-> user_answer] >>

\* _parse_message: the last interviewer/AI line and the last user line
RECURSIVE ParseFrom(_, _, _, _)
ParseFrom(lines, i, q, a) ==
  IF i > Len(lines) THEN [question |-> q, user_answer |-> a]
  ELSE IF lines[i].tag \in {"interviewer", "AI"}
       THEN ParseFrom(lines, i + 1, lines[i].text, a)
  ELSE IF lines[i].tag \in {"user", "candidate"}
       THEN ParseFrom(lines, i + 1, q, lines[i].text)
  ELSE ParseFrom(lines, i + 1, q, a)

\* "" stands for both None and the empty string: both are falsy
parse_message(message) == ParseFrom(message, 1, "", "")

Parseable(message) ==
  LET p == parse_message(message) IN p.question /= "" /\ p.user_answer /= ""

\* a slip in the except branches: the failure is swallowed and nothing is
\* returned
generate_comment_with_llm_ReturnsNothing(src, r, llm) ==
  IF llm \in {"exception", "bad_json"} THEN None ELSE Rec(src, r, llm)

\* the try/except of the critics' _generate_comment_with_llm
generate_comment_with_llm(src, r, llm) ==
  IF llm = "exception" THEN Rec(src, r, "err_exc")
  ELSE IF llm = "bad_json" THEN Rec(src, r, "err_json")
  ELSE Rec(src, r, llm)

\* RAGCriticAgent.generate_comment / WebCriticAgent.generate_comment:
\* the value written to the critic's comment field
generate_comment(src, s, llm) ==
  IF ~Parseable(s.message) THEN Rec(src, s.current_round, "err_parse")
  ELSE generate_comment_with_llm(src, s.current_round, llm)

(* ------------------------- initial state ------------------------------- *)

\* ForumAgent.run_discussion: initial_state
InitialState(question, user_answer, max_rounds) ==
  [ session_id         |-> "forum_1",
    user_id            |-> "user_1",
    message            |-> BuildMessage(question, user_answer),
    interview_context  |-> "ctx",
    current_round      |-> 1,
    max_rounds         |-> max_rounds,
    current_speaker    |-> "",
    rag_critic_comment |-> None,
    web_critic_comment |-> None,
    discussion_history |-> << >>,
    final_evaluation   |-> None,
    next_step          |-> "rag_critic",
    should_continue    |-> TRUE,
    discussion_id      |-> "none" ]

\* the input a node received from its external services, as a uniform record:
\* t is the LLM's (or the database's) outcome, ext the outcome of the
\* retrieval or web search call made before it
In(x) == [t |-> x, sc |-> "missing", ns |-> "missing", sp |-> "missing", ext |-> "none"]

InExt(x, e) == [In(x) EXCEPT !.ext = e]

NoObs == [node |-> "none", before |-> InitialState("q", "a", 1), input |-> In("none")]

\* what a run leaves behind for comparison with its replay
Outcome(s, p, t) ==
  [trace |-> t, pc |-> p,
   rag_critic_comment |-> s.rag_critic_comment,
   web_critic_comment |-> s.web_critic_comment,
   final_evaluation   |-> s.final_evaluation]

\* run = 0: live backends; run = 1, 2: first and second run against mocked
\* deterministic backends, memo holding the replies given so far
Backends(run, s) ==
  [run |-> run, memo |-> {}, trace |-> << >>, initial |-> s,
   first |-> Outcome(s, "none", << >>)]

\* no invocation of _invoke_with_schema in progress
NoCall ==
  [pc |-> "idle", attempt |-> 0, last_result |-> "None", result |-> "None",
   total_usage |-> 0, responses |-> << >>]

\* no critique produced yet
NoCritique ==
  [src |-> "none", kind |-> "none", scores |-> <<0, 0, 0>>, overall_score |-> 0]

\* a discussion while another one is running: its state, graph position,
\* superstep count and bookkeeping
Suspended(s, p, n, r, l) ==
  [state |-> s, pc |-> p, steps |-> n, runs |-> r, last |-> l]

\* no second discussion
NoOther == Suspended(InitialState("q", "a", 1), "none", 0, [n \in Nodes |-> 0], NoObs)

\* InterviewAgent.create_initial_state, with the constructor's think_max_num
\* and deep_question_max_num; the graph is at its entry point
InterviewInitialState(think_max_num, deep_question_max_num) ==
  [pc                    |-> "messageInput",
   steps                 |-> 0,
   think_max_num         |-> think_max_num,
   deep_question_max_num |-> deep_question_max_num,
   question_plan         |-> 0,
   current_question      |-> <<"none", 0>>,
   messages              |-> "none",
   next_step             |-> "",
   deep_index            |-> 0,
   thinking_process      |-> 0,
   should_regenerate     |-> FALSE,
   interview_stage       |-> "",
   asked                 |-> << >>,
   follow_ups            |-> 0,
   generated             |-> 0,
   node                  |-> "none",
   llm                   |-> "none"]

\* no interview
NoInterview == [InterviewInitialState(0, 0) EXCEPT !.pc = "idle"]

\* the start of a discussion; the transcript and max_rounds are the inputs
Start(run) ==
  /\ \E q \in Questions, a \in Answers, m \in 1..MaxRounds :
        /\ state = InitialState(q, a, m)
        /\ replay = Backends(run, InitialState(q, a, m))
  /\ pc = "rag_critic"
  /\ steps = 0
  /\ runs = [n \in Nodes |-> 0]
  /\ db = << >>
  /\ last = NoObs
  /\ clock = 0
  /\ call = NoCall
  /\ critique = NoCritique
  /\ other = NoOther
  /\ iv = NoInterview

Init == Start(0)

\* what a node's backend requests are made of: the critics' prompts hold the
\* question and the answer, the decision prompt the round, max_rounds, the
\* speaker and both comments, the final-evaluation prompt the question, the
\* answer, both comments and the discussion history, timestamps included
Request(node, s) ==
  [node    |-> node,
   message |-> IF node \in {"rag_critic", "web_critic", "moderator_summarize"}
               THEN s.message ELSE << >>,
   round   |-> IF node = "moderator_decide" THEN s.current_round ELSE 0,
   max     |-> IF node = "moderator_decide" THEN s.max_rounds ELSE 0,
   speaker |-> IF node = "moderator_decide" THEN s.current_speaker ELSE "",
   rag     |-> IF node \in {"moderator_decide", "moderator_summarize"}
               THEN s.rag_critic_comment ELSE None,
   web     |-> IF node \in {"moderator_decide", "moderator_summarize"}
               THEN s.web_critic_comment ELSE None,
   history |-> IF node = "moderator_summarize"
               THEN s.discussion_history ELSE << >>]

\* a mocked deterministic backend answers a request it has seen as before
Deterministic(node, input) ==
  IF replay.run = 0
  THEN TRUE
  ELSE \A m \in replay.memo : m[1] = Request(node, state) => m[2] = input

\* the mocked backends remember the reply; the run records the node it visited
Replayed(node, input) ==
  IF replay.run = 0
  THEN replay
  ELSE [replay EXCEPT !.memo = @ \cup {<<Request(node, state), input>>},
                      !.trace = Append(@, node)]

\* bookkeeping shared by every node execution
Ran(node, input) ==
  /\ steps < StepLimit
  /\ pc = node
  /\ Deterministic(node, input)
  /\ steps' = steps + 1
  /\ runs' = [runs EXCEPT ![node] = @ + 1]
  /\ last' = [node |-> node, before |-> state, input |-> input]
  /\ replay' = Replayed(node, input)
  /\ UNCHANGED <<call, critique, other, iv>>

(* ------------------------------ nodes ---------------------------------- *)

\* a wiring slip: save is routed back to moderator_summarize
Edge_SaveLoops(node) ==
  CASE node = "rag_critic" -> "web_critic"
    [] node = "web_critic" -> "moderator_decide"
    [] node = "moderator_summarize" -> "save"
    [] node = "save" -> "moderator_summarize"

\* a wiring slip: save is followed by another moderator_decide
Edge_SaveToDecide(node) ==
  CASE node = "rag_critic" -> "web_critic"
    [] node = "web_critic" -> "moderator_decide"
    [] node = "moderator_summarize" -> "save"
    [] node = "save" -> "moderator_decide"

\* buildGraph: the unconditional edges (add_edge)
Edge(node) ==
  CASE node = "rag_critic" -> "web_critic"
    [] node = "web_critic" -> "moderator_decide"
    [] node = "moderator_summarize" -> "save"
    [] node = "save" -> "end"

\* ForumNodes.rag_critic_node, edge rag_critic -> web_critic.
\* retrieval: "cases", "zero" results, or "fail" (embedding, Milvus or
\* PostgreSQL raises inside _search_similar_cases, which has no handler).
\* With an unparseable transcript neither retrieval nor the LLM is called.
rag_critic_node ==
  \E retrieval \in {"cases", "zero", "fail", "not_called"},
     llm \in LLMOutcomes \cup {"not_called"} :
    /\ (retrieval = "not_called") <=> ~Parseable(state.message)
    /\ (llm = "not_called") <=> (~Parseable(state.message) \/ retrieval = "fail")
    /\ Ran("rag_critic", InExt(llm, IF retrieval \in {"cases", "zero"} THEN "returned" ELSE retrieval))
    /\ IF retrieval = "fail"
       THEN /\ pc' = "raised"
            /\ state' = state
       ELSE /\ state' = [state EXCEPT
                 !.rag_critic_comment = generate_comment("rag_critic", state, llm),
                 !.current_speaker = "rag_critic"]
            /\ pc' = Edge("rag_critic")
    /\ UNCHANGED <<db, clock>>

\* ForumNodes.web_critic_node, edge web_critic -> moderator_decide.
\* _search_web catches its own failure and returns one error-tagged result,
\* after which the LLM is invoked as usual.
web_critic_node ==
  \E search \in {"results", "fail", "not_called"},
     llm \in LLMOutcomes \cup {"not_called"} :
    /\ (search = "not_called") <=> ~Parseable(state.message)
    /\ (llm = "not_called") <=> ~Parseable(state.message)
    /\ Ran("web_critic", InExt(llm, search))
    /\ state' = [state EXCEPT
          !.web_critic_comment = generate_comment("web_critic", state, llm),
          !.current_speaker = "web_critic"]
    /\ pc' = Edge("web_critic")
    /\ UNCHANGED <<db, clock>>

(* ---------------------------- moderator -------------------------------- *)

\* what the decision LLM call can come back with:
\*   t = "fail"    ainvoke raises or the text is not JSON
\*   t = "notdict" the text is JSON but not an object (a list, a number, null)
\*   t = "dict"    a JSON object; each key may be missing
DecisionResponses ==
  { In("fail"), In("notdict") }
  \cup
  [ t  : {"dict"},
    sc : {"true", "false", "missing"},
    ns : NextStepEnum \cup {"missing", "other"},
    sp : {"moderator", "missing"},
    ext : {"none"} ]

\* a slip in the except branch: the fallback routes to "end", the default
\* that decide_next_step uses for a missing next_step
make_decision_with_llm_EndFallback(resp) ==
  IF resp.t = "fail"
  THEN [t |-> "dict", sc |-> "false", ns |-> "end", sp |-> "moderator", ext |-> "none"]
  ELSE resp

\* ModeratorAgent._make_decision_with_llm: the except branch substitutes the
\* default decision; any parsed value is returned as it is
make_decision_with_llm(resp) ==
  IF resp.t = "fail"
  THEN [t |-> "dict", sc |-> "false", ns |-> "moderator_summarize", sp |-> "moderator",
        ext |-> "none"]
  ELSE resp

\* decision.get(key, default)
DictGet(v, default) == IF v = "missing" THEN default ELSE v

\* a slip in step 6: the web comment is not cleared for the next round
ContinueUpdate_KeepsWeb(s) ==
  [s EXCEPT
     !.discussion_history = Append(s.discussion_history,
          [round       |-> s.current_round,
           rag_comment |-> s.rag_critic_comment,
           web_comment |-> s.web_critic_comment,
           timestamp   |-> clock]),
     !.current_round = s.current_round + 1,
     !.rag_critic_comment = None]

\* a slip in step 6: the round is advanced without the history snapshot
ContinueUpdate_NoSnapshot(s) ==
  [s EXCEPT
     !.current_round = s.current_round + 1,
     !.rag_critic_comment = None,
     !.web_critic_comment = None]

\* a slip in step 6: the history is kept on the moderator, which every
\* discussion of the coordinator shares, instead of in the discussion's state
ContinueUpdate_SharedHistory(s) ==
  [s EXCEPT
     !.discussion_history = Append(other.state.discussion_history,
          [round       |-> s.current_round,
           rag_comment |-> s.rag_critic_comment,
           web_comment |-> s.web_critic_comment,
           timestamp   |-> clock]),
     !.current_round = s.current_round + 1,
     !.rag_critic_comment = None,
     !.web_critic_comment = None]

\* a slip in step 6: the round is advanced before the snapshot is taken
ContinueUpdate_RoundAfter(s) ==
  [s EXCEPT
     !.discussion_history = Append(s.discussion_history,
          [round       |-> s.current_round + 1,
           rag_comment |-> s.rag_critic_comment,
           web_comment |-> s.web_critic_comment,
           timestamp   |-> clock]),
     !.current_round = s.current_round + 1,
     !.rag_critic_comment = None,
     !.web_critic_comment = None]

\* ModeratorAgent.decide_next_step, step 6: history snapshot, round + 1,
\* both comments cleared; the snapshot carries datetime.now()
ContinueUpdate(s) ==
  [s EXCEPT
     !.discussion_history = Append(s.discussion_history,
          [round       |-> s.current_round,
           rag_comment |-> s.rag_critic_comment,
           web_comment |-> s.web_critic_comment,
           timestamp   |-> clock]),
     !.current_round = s.current_round + 1,
     !.rag_critic_comment = None,
     !.web_critic_comment = None]

\* ModeratorAgent.decide_next_step, step 5 and 6: apply a decision dict
ApplyDecision(s, d) ==
  LET s1 == [s EXCEPT
               !.should_continue = (DictGet(d.sc, "false") = "true"),
               !.next_step = DictGet(d.ns, "end"),
               !.current_speaker = DictGet(d.sp, "moderator")]
  IN IF s1.should_continue /\ s1.next_step = "rag_critic"
     THEN ContinueUpdate(s1)
     ELSE s1

\* ModeratorAgent.decide_next_step: the state it returns for an LLM response;
\* raised = TRUE when decision.get fails on a value that is not a dict
Moderator_decide_next_step(s, resp) ==
  IF s.current_round = 1 /\ ~Truthy(s.rag_critic_comment)
  THEN [raised |-> FALSE,
        state |-> [s EXCEPT !.next_step = "rag_critic",
                            !.current_speaker = "rag_critic",
                            !.should_continue = TRUE]]
  ELSE IF Truthy(s.rag_critic_comment) /\ ~Truthy(s.web_critic_comment)
  THEN [raised |-> FALSE,
        state |-> [s EXCEPT !.next_step = "web_critic",
                            !.current_speaker = "web_critic",
                            !.should_continue = TRUE]]
  ELSE IF Truthy(s.rag_critic_comment) /\ Truthy(s.web_critic_comment)
  THEN LET d == make_decision_with_llm(resp) IN
       IF d.t = "notdict"
       THEN [raised |-> TRUE, state |-> s]
       ELSE [raised |-> FALSE, state |-> ApplyDecision(s, d)]
  ELSE [raised |-> FALSE, state |-> s]

\* the LLM is asked for a decision only when both comments are present
BothPresent(s) == Truthy(s.rag_critic_comment) /\ Truthy(s.web_critic_comment)

\* ForumNodes.decide_next_step: the conditional edge's router
decide_next_step(s) ==
  IF s.next_step \in
       {"rag_critic", "web_critic", "moderator_decide", "moderator_summarize", "save"}
  THEN s.next_step
  ELSE "end"

\* buildGraph: the path map of the conditional edge after moderator_decide;
\* a router result outside the map makes the graph run raise
PathMap == {"rag_critic", "moderator_summarize", "end"}

\* ForumNodes.moderator_decide_node followed by the conditional edge
moderator_decide_node ==
  \E resp \in DecisionResponses \cup {In("not_called")} :
    /\ (resp.t = "not_called") <=> ~BothPresent(state)
    /\ Ran("moderator_decide", resp)
    /\ LET r == Moderator_decide_next_step(state, resp) IN
         /\ state' = r.state
         /\ pc' = IF r.raised \/ decide_next_step(r.state) \notin PathMap
                  THEN "raised"
                  ELSE decide_next_step(r.state)
         /\ clock' = IF r.state.current_round # state.current_round
                      THEN clock + 1
                      ELSE clock
    /\ db' = db

\* ModeratorAgent._generate_final_evaluation_with_llm: same try/except shape
\* as the critics
generate_final_evaluation_with_llm(r, llm) ==
  IF llm = "exception" THEN Rec("moderator", r, "err_exc")
  ELSE IF llm = "bad_json" THEN Rec("moderator", r, "err_json")
  ELSE Rec("moderator", r, llm)

\* a slip in the summary: the round counter is advanced once more
generate_final_evaluation_BumpsRound(s, llm) ==
  [s EXCEPT !.final_evaluation = generate_final_evaluation_with_llm(s.current_round, llm),
            !.next_step = "save",
            !.current_round = s.current_round + 1]

\* ModeratorAgent.generate_final_evaluation
generate_final_evaluation(s, llm) ==
  [s EXCEPT !.final_evaluation = generate_final_evaluation_with_llm(s.current_round, llm),
            !.next_step = "save"]

\* ForumNodes.moderator_summarize_node, edge moderator_summarize -> save
moderator_summarize_node ==
  \E llm \in LLMOutcomes :
    /\ Ran("moderator_summarize", In(llm))
    /\ state' = generate_final_evaluation(state, llm)
    /\ pc' = Edge("moderator_summarize")
    /\ UNCHANGED <<db, clock>>

\* the record ForumNodes.save_discussion_node hands to insert_forum_discussion
DiscussionRecord(s) ==
  [ session_id         |-> s.session_id,
    user_id            |-> s.user_id,
    question           |-> parse_message(s.message).question,
    user_answer        |-> parse_message(s.message).user_answer,
    rag_comment        |-> s.rag_critic_comment,
    web_comment        |-> s.web_critic_comment,
    final_evaluation   |-> s.final_evaluation,
    discussion_history |-> s.discussion_history,
    total_rounds       |-> s.current_round,
    max_rounds         |-> s.max_rounds ]

\* ForumNodes.save_discussion_node, edge save -> END.  db.connect() or the
\* insert may raise; nothing catches it (finally only closes the connection).
\* db.close() in the finally block may raise after the row was inserted.
save_discussion_node ==
  \E outcome \in {"ok", "connect_fail", "insert_fail", "close_fail"} :
    /\ Ran("save", In(outcome))
    /\ clock' = clock
    /\ db' = IF outcome \in {"ok", "close_fail"}
             THEN Append(db, DiscussionRecord(state))
             ELSE db
    /\ IF outcome = "ok"
       THEN /\ state' = [state EXCEPT !.discussion_id = "id_1", !.next_step = "end"]
            /\ pc' = Edge("save")
       ELSE /\ state' = state
            /\ pc' = "raised"

\* graph.ainvoke: a run that has used up its supersteps without reaching END
\* is stopped with an error, which run_discussion re-raises
RecursionLimitReached ==
  /\ pc \in Nodes
  /\ steps = StepLimit
  /\ pc' = "raised"
  /\ UNCHANGED <<state, steps, runs, db, last, clock, replay, call, critique, other, iv>>

Next ==
  \/ rag_critic_node
  \/ web_critic_node
  \/ moderator_decide_node
  \/ moderator_summarize_node
  \/ save_discussion_node
  \/ RecursionLimitReached

Spec == Init /\ [][Next]_vars

TypeOK ==
  /\ pc \in Nodes \cup {"end", "raised"}
  /\ steps \in 0..StepLimit
  /\ state.current_round \in 1..(StepLimit + 1)
  /\ state.should_continue \in BOOLEAN

(* ======================= properties of the discussion ================== *)

\* a moderator_decide step: the node runs and the conditional edge is taken
DecideStep == pc = "moderator_decide" /\ steps' = steps + 1

\* a moderator_decide step in which the LLM is asked for a decision
DecideStepBoth == DecideStep /\ BothPresent(state)

\* C1: in every reachable state 1 <= current_round <= max_rounds, whatever
\* decision the moderator's LLM returns.
C1_RoundWithinMax ==
  /\ 1 <= state.current_round
  /\ state.current_round <= state.max_rounds

\* C2: the graph reaches its terminal state after at most max_rounds
\* executions of moderator_decide, for every sequence of moderator decisions.
C2_DecideRunsWithinMax ==
  runs["moderator_decide"] <= state.max_rounds

\* C3: whenever the discussion reaches END (run_discussion returns a final
\* state), final_evaluation is non-null.
C3_EndHasEvaluation ==
  pc = "end" => state.final_evaluation # None

\* C4: a moderator_decide step with both critiques present and
\* current_round >= max_rounds converges (should_continue false, next state
\* moderator_summarize); with max_rounds = 1 the two critics and
\* moderator_decide run exactly once each.
C4_ConvergesAtMax ==
  /\ [][ (DecideStepBoth /\ state.current_round >= state.max_rounds)
           => (state'.should_continue = FALSE /\ pc' = "moderator_summarize") ]_vars
  /\ [](state.max_rounds = 1 =>
          \A n \in {"rag_critic", "web_critic", "moderator_decide"} : runs[n] <= 1)
  /\ []((state.max_rounds = 1 /\ pc = "end") =>
          \A n \in {"rag_critic", "web_critic", "moderator_decide"} : runs[n] = 1)

\* the decision of the last step was "continue": should_continue = true with
\* next_step = rag_critic, taken with both critiques present
LastDecidedContinue ==
  /\ last.node = "moderator_decide"
  /\ BothPresent(last.before)
  /\ last.input.t = "dict"
  /\ last.input.sc = "true"
  /\ last.input.ns = "rag_critic"

C6_HistoryLength ==
  Len(state.discussion_history) = state.current_round - 1

C6_Witness ==
  /\ pc = "moderator_summarize"
  /\ state.current_round = 2
  /\ Len(state.discussion_history) = 1

\* C7: final_evaluation is null until moderator_summarize runs, is written
\* only by moderator_summarize, never changes once non-null, and
\* moderator_summarize runs at most once per discussion.
C7_EvaluationWrittenOnce ==
  /\ [](runs["moderator_summarize"] = 0 => state.final_evaluation = None)
  /\ [](runs["moderator_summarize"] <= 1)
  /\ [][ /\ (state'.final_evaluation # state.final_evaluation
               => pc = "moderator_summarize")
         /\ (state.final_evaluation # None
               => state'.final_evaluation = state.final_evaluation) ]_vars

C7_Witness ==
  /\ pc = "end"
  /\ runs["moderator_summarize"] = 1
  /\ state.final_evaluation # None
  /\ state.final_evaluation.src = "moderator"

\* C8: after every moderator_decide step with both critiques present exactly
\* one of two outcomes holds: should_continue = true and the next state is
\* rag_critic, or should_continue = false and the next state is
\* moderator_summarize.
C8_ContinueXorConverge ==
  [][ DecideStepBoth =>
        \/ (state'.should_continue = TRUE /\ pc' = "rag_critic")
        \/ (state'.should_continue = FALSE /\ pc' = "moderator_summarize") ]_vars

\* C9: if the LLM call or the JSON parsing inside moderator_decide fails, the
\* step does not raise: should_continue = false, next_step =
\* moderator_summarize, round, history and both comments unchanged, and the
\* discussion goes on to moderator_summarize.
C9_DecisionFailureConverges ==
  [][ (DecideStep /\ last'.input.t = "fail") =>
        /\ pc' = "moderator_summarize"
        /\ state'.should_continue = FALSE
        /\ state'.next_step = "moderator_summarize"
        /\ state'.current_round = state.current_round
        /\ state'.discussion_history = state.discussion_history
        /\ state'.rag_critic_comment = state.rag_critic_comment
        /\ state'.web_critic_comment = state.web_critic_comment ]_vars

C9_Witness ==
  /\ last.node = "moderator_decide"
  /\ last.input.t = "fail"
  /\ pc = "moderator_summarize"
  /\ state.current_round = 2

\* C10: whenever web_critic starts, and whenever web_critic_comment is
\* non-null, rag_critic_comment is non-null and was produced in the current
\* round.
C10_RagBeforeWeb ==
  (pc = "web_critic" \/ state.web_critic_comment # None) =>
     /\ state.rag_critic_comment # None
     /\ state.rag_critic_comment.src = "rag_critic"
     /\ state.rag_critic_comment.round = state.current_round

\* a step of node n: the node runs and its outgoing edge is taken
StepOf(n) == pc = n /\ steps' = steps + 1

\* C11: END is entered only from save: no run reaches END without having
\* executed moderator_summarize and then save immediately before it.
C11_EndOnlyViaSave ==
  pc = "end" =>
    /\ last.node = "save"
    /\ runs["moderator_summarize"] >= 1
    /\ runs["save"] >= 1

\* C12: a discussion that completes without raising has made exactly one
\* persistence write, in save, after final_evaluation was set; no run makes
\* two writes.
C12_ExactlyOneWrite ==
  /\ Len(db) <= 1
  /\ (pc = "end" => Len(db) = 1)
  /\ (Len(db) >= 1 => (runs["save"] >= 1 /\ runs["moderator_summarize"] >= 1))

\* C13: if a graph step raises (an exception escaping a critic, or a failure
\* of the persistence write in save), run_discussion raises and returns no
\* final state; when the failure is not in save, nothing has been written.
C13_RaiseAborts ==
  /\ [][ /\ (StepOf("rag_critic") /\ last'.input.ext = "fail") => pc' = "raised"
         /\ (StepOf("save") /\ last'.input.t # "ok") => pc' = "raised"
         /\ (pc = "raised") => (pc' = "raised" /\ state' = state /\ db' = db) ]_vars
  /\ []((pc = "raised" /\ last.node # "save") => db = << >>)
  /\ []((pc = "raised" /\ last.input.t \in {"connect_fail", "insert_fail"}) => db = << >>)

C13_Witness ==
  /\ pc = "raised"
  /\ last.node = "rag_critic"
  /\ last.input.ext = "fail"
  /\ state.current_round = 2
  /\ db = << >>

\* C14: if the retrieval backend fails during rag_critic, rag_critic still
\* writes a critique, as if zero cases had been retrieved, and the discussion
\* continues to web_critic.
C14_RetrievalFailureRecovered ==
  [][ (StepOf("rag_critic") /\ last'.input.ext = "fail") =>
        /\ pc' = "web_critic"
        /\ state'.rag_critic_comment # None
        /\ state'.rag_critic_comment.src = "rag_critic" ]_vars

\* C15: if the web search fails during web_critic, the step does not raise,
\* the LLM is still invoked, web_critic_comment is set to a non-null record
\* and the discussion continues to moderator_decide.
C15_SearchFailureRecovered ==
  [][ (StepOf("web_critic") /\ last'.input.ext = "fail") =>
        /\ pc' = "moderator_decide"
        /\ last'.input.t \in LLMOutcomes
        /\ state'.web_critic_comment # None
        /\ state'.web_critic_comment.src = "web_critic" ]_vars

\* C16: with a transcript that cannot be parsed into a non-empty question and
\* answer, each critic writes the error-tagged record without calling
\* retrieval, web search or the LLM, the graph proceeds rag_critic ->
\* web_critic -> moderator_decide, and the discussion ends with a non-null
\* final_evaluation.
C16_UnparseableStillEvaluated ==
  /\ [][ (~Parseable(state.message) /\ StepOf("rag_critic")) =>
           /\ last'.input.t = "not_called" /\ last'.input.ext = "not_called"
           /\ state'.rag_critic_comment.kind = "err_parse"
           /\ pc' = "web_critic" ]_vars
  /\ [][ (~Parseable(state.message) /\ StepOf("web_critic")) =>
           /\ last'.input.t = "not_called" /\ last'.input.ext = "not_called"
           /\ state'.web_critic_comment.kind = "err_parse"
           /\ pc' = "moderator_decide" ]_vars
  /\ []((~Parseable(state.message) /\ pc = "end") => state.final_evaluation # None)

\* the LLM call of the last step failed: ainvoke raised or the text was not JSON
LLMFailed(input) == input.t \in {"exception", "bad_json"}

\* the error-tagged record a failed LLM call leaves behind
ErrorTagged(c, src) == c.src = src /\ c.kind \in {"err_exc", "err_json"}

C19_StepCeiling ==
  /\ [](steps <= StepLimit)
  /\ [][ (3 * state.max_rounds + 2 <= StepLimit) => ~RecursionLimitReached ]_vars

(* =============== the structured LLM call, _invoke_with_schema ========== *)

\* max_retries = 3
max_retries == 3

\* the parsed objects a response can carry
Payloads == {"obj_a", "obj_b"}

\* what one chat.completions.create + json.loads + validate can come to:
\*   api_error  the request raises
\*   bad_json   the content is not JSON, json.loads raises
\*   invalid    the parsed object fails the schema (ValidationError)
\*   valid      the parsed object satisfies the schema
\* tokens is response.usage.prompt_tokens, 0 when the response has no usage
Responses ==
  [kind : {"valid", "invalid"}, payload : Payloads, tokens : {0, 1}]
    \cup [kind : {"api_error", "bad_json"}, payload : {"None"}, tokens : {0}]

\* a slip at `last_result = result`: only the first parsed object is kept
KeepLast_First(last_result, result) ==
  IF last_result = "None" THEN result ELSE last_result

\* last_result = result
KeepLast(last_result, result) == result

\* one iteration of `for attempt in range(max_retries)`
invoke_with_schema_attempt ==
  \E resp \in Responses :
    /\ call.pc = "loop"
    /\ call.attempt < max_retries
    /\ LET logged == [call EXCEPT !.responses = Append(@, resp)]
           parsed == [logged EXCEPT
                        !.last_result = KeepLast(call.last_result, resp.payload),
                        !.total_usage = @ + resp.tokens]
       IN call' =
            IF resp.kind \in {"api_error", "bad_json"}
            THEN [logged EXCEPT !.pc = "raised"]
            ELSE IF resp.kind = "valid"
            THEN [parsed EXCEPT !.pc = "returned", !.result = resp.payload]
            ELSE IF call.attempt < max_retries - 1
            THEN [parsed EXCEPT !.attempt = @ + 1]
            ELSE [parsed EXCEPT !.pc = "returned", !.result = parsed.last_result]
    /\ UNCHANGED <<state, pc, steps, runs, db, last, clock, replay, critique, other, iv>>

\* a caller enters _invoke_with_schema: max_retries, last_result, total_usage
SchemaInit ==
  /\ state = InitialState("q", "a", 1)
  /\ replay = Backends(0, InitialState("q", "a", 1))
  /\ pc = "end"
  /\ steps = 0
  /\ runs = [n \in Nodes |-> 0]
  /\ db = << >>
  /\ last = NoObs
  /\ clock = 0
  /\ call = [NoCall EXCEPT !.pc = "loop"]
  /\ critique = NoCritique
  /\ other = NoOther
  /\ iv = NoInterview

SchemaNext == invoke_with_schema_attempt

SchemaSpec == SchemaInit /\ [][SchemaNext]_vars

\* the kinds of the responses received so far
Kinds == [i \in 1..Len(call.responses) |-> call.responses[i].kind]

\* C18: _invoke_with_schema makes at most 3 LLM requests per invocation,
\* returns immediately on the first response that validates, and when all 3
\* responses fail validation returns the third response's parsed object
\* instead of raising.
C18_BoundedRetry ==
  LET n == Len(call.responses) IN
  /\ n <= 3
  /\ \A i \in 1..n : Kinds[i] = "valid" =>
        /\ i = n
        /\ call.pc = "returned"
        /\ call.result = call.responses[i].payload
  /\ (n = 3 /\ \A i \in 1..3 : Kinds[i] = "invalid") =>
        /\ call.pc = "returned"
        /\ call.result = call.responses[3].payload
  /\ call.pc = "returned" =>
        /\ \A i \in 1..(n - 1) : Kinds[i] = "invalid"
        /\ Kinds[n] = "valid" \/ n = 3

C18_Witness ==
  /\ call.pc = "returned"
  /\ Len(call.responses) = 3
  /\ \A i \in 1..3 : Kinds[i] = "invalid"
  /\ call.responses[1].payload # call.responses[3].payload
  /\ call.result = call.responses[3].payload

(* ============ replaying a discussion on deterministic backends ========= *)

\* run_discussion is called again with the same question, answer, context
\* and max_rounds: a fresh initial_state, the same agents and backends, the
\* wall clock running on
SecondRun ==
  /\ replay.run = 1
  /\ pc \in {"end", "raised"}
  /\ replay' = [replay EXCEPT !.run = 2,
                              !.trace = << >>,
                              !.first = Outcome(state, pc, replay.trace)]
  /\ state' = replay.initial
  /\ pc' = "rag_critic"
  /\ steps' = 0
  /\ runs' = [n \in Nodes |-> 0]
  /\ last' = NoObs
  /\ UNCHANGED <<db, clock, call, critique, other, iv>>

DetInit == Start(1)

DetNext ==
  \/ rag_critic_node
  \/ web_critic_node
  \/ moderator_decide_node
  \/ moderator_summarize_node
  \/ save_discussion_node
  \/ RecursionLimitReached
  \/ SecondRun

DetSpec == DetInit /\ [][DetNext]_vars

\* the second run has come to its end
ReplayDone == replay.run = 2 /\ pc \in {"end", "raised"}

\* C20: with a deterministic LLM, retrieval and web-search backend, two runs
\* of run_discussion on the same question, answer, context and max_rounds
\* visit the same sequence of graph states and end with identical
\* rag_critic_comment, web_critic_comment and final_evaluation (session_id
\* and timestamps are not compared).
C20_ReplayIdentical ==
  ReplayDone => Outcome(state, pc, replay.trace) = replay.first

(* ================== the scores of a critique record ==================== *)

\* score values an LLM reply can carry (the schema asks for 0..10)
ScoreValues == {0, 5, 10, 11}

\* overall_score values of a reply, in tenths
OverallValues == {0, 18, 50, 60, 100, 110}

\* what the critic's LLM call can come back with: a JSON object with the
\* three component scores and overall_score, or a failure
ScoreReplies ==
  [kind : {"ok"}, scores : ScoreValues \X ScoreValues \X ScoreValues,
   overall_score : OverallValues]
    \cup [kind : {"exception", "bad_json"}, scores : {<<0, 0, 0>>},
          overall_score : {0}]

\* _generate_comment_with_llm: `comment = json.loads(json_str); return comment`,
\* the parsed object as the LLM gave it, or the error record of the except
\* branches
ParsedComment(src, reply) ==
  IF reply.kind = "ok"
  THEN [src |-> src, kind |-> "ok", scores |-> reply.scores,
        overall_score |-> reply.overall_score]
  ELSE [src |-> src,
        kind |-> IF reply.kind = "bad_json" THEN "err_json" ELSE "err_exc",
        scores |-> <<0, 0, 0>>, overall_score |-> 0]

\* a critic generates a comment and writes it to its field of the state
critic_generate_comment(src) ==
  \E reply \in ScoreReplies :
    /\ critique' = ParsedComment(src, reply)
    /\ UNCHANGED <<state, pc, steps, runs, db, last, clock, replay, call, other, iv>>

rag_generate_comment == critic_generate_comment("rag_critic")

web_generate_comment == critic_generate_comment("web_critic")

ScoreInit ==
  /\ state = InitialState("q", "a", 1)
  /\ replay = Backends(0, InitialState("q", "a", 1))
  /\ pc = "rag_critic"
  /\ steps = 0
  /\ runs = [n \in Nodes |-> 0]
  /\ db = << >>
  /\ last = NoObs
  /\ clock = 0
  /\ call = NoCall
  /\ critique = NoCritique
  /\ other = NoOther
  /\ iv = NoInterview

ScoreNext ==
  \/ rag_generate_comment
  \/ web_generate_comment

ScoreSpec == ScoreInit /\ [][ScoreNext]_vars

\* 0.4*completeness + 0.4*accuracy + 0.2*depth, in tenths
RagWeighted(c) == 4 * c[1] + 4 * c[2] + 2 * c[3]

\* 0.35*relevance + 0.35*timeliness + 0.30*practicality, in hundredths
WebWeighted(c) == 35 * c[1] + 35 * c[2] + 30 * c[3]

\* o (in tenths) is v (in hundredths) rounded to one decimal
RoundedTo1(o, v) == 10 * o - v <= 5 /\ v - 10 * o <= 5

\* C21: every critique record a critic writes satisfies its score formula:
\* RAG overall_score = round(0.4*completeness + 0.4*accuracy + 0.2*depth, 1),
\* Web overall_score = round(0.35*relevance + 0.35*timeliness +
\* 0.30*practicality, 1), with every score in [0,10].
C21_ScoreFormula ==
  critique.kind = "ok" =>
    /\ \A i \in 1..3 : critique.scores[i] \in 0..10
    /\ critique.overall_score \in 0..100
    /\ critique.src = "rag_critic" =>
         critique.overall_score = RagWeighted(critique.scores)
    /\ critique.src = "web_critic" =>
         RoundedTo1(critique.overall_score, WebWeighted(critique.scores))

(* =================== history, rounds, frames, routing =================== *)

\* one step leaves the history alone or appends exactly one entry to it
AppendsAtMostOne(h, g) ==
  \/ g = h
  \/ /\ Len(g) = Len(h) + 1
     /\ SubSeq(g, 1, Len(h)) = h

\* C22: discussion_history is append-only and in strict round order: no step
\* removes or modifies an existing entry, and in every reachable state the
\* k-th entry has round = k.
C22_HistoryAppendOnlyInOrder ==
  /\ [][AppendsAtMostOne(state.discussion_history, state'.discussion_history)]_vars
  /\ [](\A k \in 1..Len(state.discussion_history) :
          state.discussion_history[k].round = k)

\* two rounds have been snapshotted
C22_Witness == Len(state.discussion_history) = 2

\* C23: every transition from moderator_decide back to rag_critic begins a
\* new round: current_round is incremented by exactly one and rag_critic is
\* entered with both comments null.
C23_ReentryStartsNewRound ==
  [][ (DecideStep /\ pc' = "rag_critic")
        => /\ state'.current_round = state.current_round + 1
           /\ state'.rag_critic_comment = None
           /\ state'.web_critic_comment = None ]_vars

\* the fields of the state other than the listed ones are the same in s and t
SameExcept(s, t, fields) ==
  \A f \in (DOMAIN s) \ fields : s[f] = t[f]

\* C24: no step changes session_id, user_id, message, interview_context or
\* max_rounds; the rag_critic step changes only rag_critic_comment and
\* current_speaker, the web_critic step only web_critic_comment and
\* current_speaker; current_round and discussion_history are changed only by
\* moderator_decide.
C24_Frames ==
  [][ /\ \A f \in {"session_id", "user_id", "message", "interview_context", "max_rounds"} :
           state'[f] = state[f]
      /\ StepOf("rag_critic") =>
           SameExcept(state, state', {"rag_critic_comment", "current_speaker"})
      /\ StepOf("web_critic") =>
           SameExcept(state, state', {"web_critic_comment", "current_speaker"})
      /\ ~DecideStep =>
           /\ state'.current_round = state.current_round
           /\ state'.discussion_history = state.discussion_history ]_vars

\* every node has run since the discussion began, the moderator having
\* advanced the round in between
C24_Witness ==
  /\ pc = "end"
  /\ state.current_round = 2
  /\ Len(state.discussion_history) = 1
  /\ state.current_speaker = "moderator"

\* C29: every next_step value that moderator_decide can leave in the state is
\* routed by the conditional edge to a declared successor of moderator_decide:
\* the router never selects a target outside {rag_critic, moderator_summarize,
\* end}.
C29_RoutedToDeclaredSuccessor ==
  [][ DecideStep => decide_next_step(state') \in PathMap ]_vars

(* ========================= the interview graph ========================= *)

\* largest think_max_num, deep_question_max_num and question_plan length
MaxThink == 2
MaxDeep == 2
MaxPlan == 2

\* supersteps run_interview allows the graph (recursion_limit)
IvStepLimit == 24

\* buildGraph: the nodes a run can reach.  The adjustQuestion branch is never
\* entered (no node sets next_step to "adjustQuestion"), and run_interview
\* returns on the output that carries next_step = "end", before the "end"
\* node runs.
InterviewNodes ==
  {"messageInput", "questionBuild", "questionBuildThink", "questionJudge",
   "questionOutput", "userInput", "nextStep", "deepQuestion",
   "deepQuestionThink", "deepQuestionJudge", "deepQuestionOutput"}

\* the interview fields of a state: the InterviewState keys the nodes use
\* (question_plan and thinking_process by their lengths, messages by the type
\* of its last message, reflection_result by its should_regenerate), the
\* graph position pc and superstep count, the constructor's two limits, and
\* the history of the run: asked (main questions output so far), follow_ups
\* (deepQuestionOutput steps since the last questionOutput), generated
\* (generate steps since the current loop was entered), node and llm (the
\* last node run and what its LLM call gave)
IvStep(s, node, llm) ==
  [s EXCEPT !.steps = @ + 1, !.node = node, !.llm = llm]

\* a node of the interview graph runs; the discussion side is untouched
IvRan(node) ==
  /\ iv.pc = node
  /\ iv.steps < IvStepLimit
  /\ UNCHANGED <<state, pc, steps, runs, db, last, clock, replay, call, critique, other>>

\* InterviewNodes.message_input, edge messageInput -> questionBuild
message_input ==
  /\ IvRan("messageInput")
  /\ iv' = [IvStep(iv, "messageInput", "none") EXCEPT
              !.interview_stage = "questionBuild",
              !.thinking_process = 0,
              !.deep_index = 0,
              !.generated = 0,
              !.pc = "questionBuild"]

\* what the plan-generation call can give: it raises, its result has no
\* question_plan key, or a plan of n questions
PlanReplies ==
  [kind : {"raise", "no_key"}, n : {0}] \cup [kind : {"plan"}, n : 0..MaxPlan]

\* InterviewNodes.question_build, edge questionBuild -> questionBuildThink
question_build ==
  \E result \in PlanReplies :
    /\ IvRan("questionBuild")
    /\ iv' = IF result.kind # "plan"
             THEN [IvStep(iv, "questionBuild", result.kind) EXCEPT !.pc = "raised"]
             ELSE [IvStep(iv, "questionBuild", "plan") EXCEPT
                     !.question_plan = result.n,
                     !.generated = @ + 1,
                     !.pc = "questionBuildThink"]

\* InterviewNodes.think: the result is appended to thinking_process
think(node, successor) ==
  \E llm \in {"raise", "result"} :
    /\ IvRan(node)
    /\ iv' = IF llm = "raise"
                \/ iv.interview_stage \notin {"questionBuild", "adjustQuestion", "deepQuestion"}
             THEN [IvStep(iv, node, "raise") EXCEPT !.pc = "raised"]
             ELSE [IvStep(iv, node, llm) EXCEPT
                     !.thinking_process = @ + 1,
                     !.pc = successor]

questionBuildThink == think("questionBuildThink", "questionJudge")

deepQuestionThink == think("deepQuestionThink", "deepQuestionJudge")

\* a slip in the limit check: > instead of >=
judge_update_StrictLimit(s, llm) ==
  IF s.thinking_process > s.think_max_num
  THEN [s EXCEPT !.should_regenerate = FALSE, !.thinking_process = 0]
  ELSE [s EXCEPT !.should_regenerate = (llm = "regenerate")]

\* InterviewNodes.judge: with round_num >= think_max_num the reflection is
\* overridden and thinking_process emptied; otherwise the LLM's reflection
\* stands and thinking_process is returned as it was
judge_update(s, llm) ==
  IF s.thinking_process >= s.think_max_num
  THEN [s EXCEPT !.should_regenerate = FALSE, !.thinking_process = 0]
  ELSE [s EXCEPT !.should_regenerate = (llm = "regenerate")]

\* InterviewNodes.judge_res: the router after the judge nodes
judge_res(s) ==
  IF s.should_regenerate
  THEN s.interview_stage
  ELSE IF s.interview_stage = "deepQuestion"
       THEN "deepQuestionOutput"
       ELSE "questionOutput"

\* InterviewNodes.judge followed by its conditional edge; a reflection that
\* is not an object makes the node or the router raise
judge(node) ==
  \E llm \in {"raise", "regenerate", "pass"} :
    /\ IvRan(node)
    /\ iv' = IF llm = "raise"
             THEN [IvStep(iv, node, "raise") EXCEPT !.pc = "raised"]
             ELSE [judge_update(IvStep(iv, node, llm), llm) EXCEPT
                     !.pc = judge_res(judge_update(iv, llm))]

questionJudge == judge("questionJudge")

deepQuestionJudge == judge("deepQuestionJudge")

\* state.get("main_question_index", 0): InterviewState declares no such key,
\* so the value question_output returns under it is not stored by the graph
\* and every read gives the default
main_question_index(s) == 0

\* InterviewNodes.question_output, edge questionOutput -> userInput;
\* run_interview returns when the output carries next_step = "end"
question_output ==
  /\ IvRan("questionOutput")
  /\ iv' = IF main_question_index(iv) < iv.question_plan
           THEN [IvStep(iv, "questionOutput", "none") EXCEPT
                   !.current_question = <<"main", main_question_index(iv) + 1>>,
                   !.messages = "ai",
                   !.asked = Append(@, main_question_index(iv) + 1),
                   !.follow_ups = 0,
                   !.pc = "userInput"]
           ELSE [IvStep(iv, "questionOutput", "none") EXCEPT
                   !.next_step = "end",
                   !.pc = "returned"]

\* InterviewNodes.deep_question_output, edge deepQuestionOutput -> userInput;
\* current_question.get raises when the follow-up is not an object
deep_question_output ==
  /\ IvRan("deepQuestionOutput")
  /\ iv' = IF iv.current_question[1] = "malformed"
           THEN [IvStep(iv, "deepQuestionOutput", "none") EXCEPT !.pc = "raised"]
           ELSE [IvStep(iv, "deepQuestionOutput", "none") EXCEPT
                   !.messages = "ai",
                   !.follow_ups = @ + 1,
                   !.pc = "userInput"]

\* InterviewNodes.user_input, edge userInput -> nextStep; input() raises at
\* end of input
user_input ==
  \E answer \in {"raise", "answer"} :
    /\ IvRan("userInput")
    /\ iv' = IF answer = "raise"
             THEN [IvStep(iv, "userInput", "raise") EXCEPT !.pc = "raised"]
             ELSE [IvStep(iv, "userInput", "none") EXCEPT
                     !.messages = "human",
                     !.pc = "nextStep"]

\* a slip in the follow-up test: deep_index is not compared with the limit
next_step_update_NoLimit(s, decision) ==
  IF decision = "follow_up"
  THEN [s EXCEPT !.next_step = "deepQuestion",
                 !.interview_stage = "deepQuestion",
                 !.generated = 0]
  ELSE IF main_question_index(s) >= s.question_plan
  THEN [s EXCEPT !.next_step = "end", !.deep_index = 0]
  ELSE [s EXCEPT !.next_step = "question", !.deep_index = 0]

\* InterviewNodes.next_step: what it returns for the LLM's follow-up decision
next_step_update(s, decision) ==
  IF decision = "follow_up" /\ s.deep_index < s.deep_question_max_num
  THEN [s EXCEPT !.next_step = "deepQuestion",
                 !.interview_stage = "deepQuestion",
                 !.generated = 0]
  ELSE IF main_question_index(s) >= s.question_plan
  THEN [s EXCEPT !.next_step = "end", !.deep_index = 0]
  ELSE [s EXCEPT !.next_step = "question", !.deep_index = 0]

\* InterviewNodes.next_step_decision: the router after nextStep;
\* run_interview returns on the output with next_step = "end"
next_step_decision(s) ==
  IF s.next_step = "adjustQuestion" THEN "adjustQuestion"
  ELSE IF s.next_step = "deepQuestion" THEN "deepQuestion"
  ELSE IF s.next_step = "end" THEN "returned"
  ELSE "questionOutput"

\* InterviewNodes.next_step followed by its conditional edge; without a user
\* message the LLM is not asked
next_step ==
  \E decision \in {"raise", "follow_up", "no_follow_up", "not_called"} :
    /\ (decision = "not_called") <=> (iv.messages # "human")
    /\ IvRan("nextStep")
    /\ iv' = IF decision = "raise"
             THEN [IvStep(iv, "nextStep", "raise") EXCEPT !.pc = "raised"]
             ELSE IF decision = "not_called"
             THEN [IvStep(iv, "nextStep", "none") EXCEPT
                     !.next_step = "end", !.pc = "returned"]
             ELSE [next_step_update(IvStep(iv, "nextStep", decision), decision) EXCEPT
                     !.pc = next_step_decision(next_step_update(iv, decision))]

\* InterviewNodes.deep_question, edge deepQuestion -> deepQuestionThink:
\* deep_index is incremented on every generation
deep_question ==
  \E llm \in {"raise", "question", "malformed"} :
    /\ IvRan("deepQuestion")
    /\ iv' = IF llm = "raise"
             THEN [IvStep(iv, "deepQuestion", "raise") EXCEPT !.pc = "raised"]
             ELSE [IvStep(iv, "deepQuestion", llm) EXCEPT
                     !.current_question =
                        <<IF llm = "malformed" THEN "malformed" ELSE "follow_up", 0>>,
                     !.deep_index = @ + 1,
                     !.generated = @ + 1,
                     !.pc = "deepQuestionThink"]

\* graph.stream: a run that has used up its supersteps is stopped with an
\* error, which run_interview re-raises
InterviewRecursionLimitReached ==
  /\ iv.pc \in InterviewNodes
  /\ iv.steps = IvStepLimit
  /\ iv' = [iv EXCEPT !.pc = "cut_off"]
  /\ UNCHANGED <<state, pc, steps, runs, db, last, clock, replay, call, critique, other>>

\* InterviewAgent.run_interview: the graph is streamed from the initial
\* state; no discussion is running
InterviewInit ==
  /\ \E t \in 0..MaxThink, d \in 0..MaxDeep : iv = InterviewInitialState(t, d)
  /\ state = InitialState("q", "a", 1)
  /\ replay = Backends(0, InitialState("q", "a", 1))
  /\ pc = "end"
  /\ steps = 0
  /\ runs = [n \in Nodes |-> 0]
  /\ db = << >>
  /\ last = NoObs
  /\ clock = 0
  /\ call = NoCall
  /\ critique = NoCritique
  /\ other = NoOther

InterviewNext ==
  \/ message_input
  \/ question_build
  \/ questionBuildThink
  \/ questionJudge
  \/ question_output
  \/ user_input
  \/ next_step
  \/ deep_question
  \/ deepQuestionThink
  \/ deepQuestionJudge
  \/ deep_question_output
  \/ InterviewRecursionLimitReached

InterviewSpec == InterviewInit /\ [][InterviewNext]_vars

\* a judge node runs to completion
JudgeStep ==
  /\ iv.pc \in {"questionJudge", "deepQuestionJudge"}
  /\ iv'.steps = iv.steps + 1
  /\ iv'.pc # "raised"

\* C26: with think_max_num >= 1, thinking_process never holds more than
\* think_max_num entries; a judge step that runs with len(thinking_process)
\* >= think_max_num forces should_regenerate = false and empties
\* thinking_process; hence a generate -> think -> judge loop is repeated at
\* most think_max_num times before its result is output.
C26_ThinkBounded ==
  /\ [](iv.think_max_num >= 1 =>
          /\ iv.thinking_process <= iv.think_max_num
          /\ iv.generated <= iv.think_max_num)
  /\ [][ (iv.think_max_num >= 1 /\ JudgeStep /\ iv.thinking_process >= iv.think_max_num)
           => (iv'.should_regenerate = FALSE /\ iv'.thinking_process = 0) ]_vars

\* the reflection asked for another round after the last allowed one, and
\* the judge overrode it
C26_Witness ==
  /\ iv.think_max_num = 2
  /\ iv.node \in {"questionJudge", "deepQuestionJudge"}
  /\ iv.llm = "regenerate"
  /\ iv.generated = 2
  /\ iv.should_regenerate = FALSE
  /\ iv.thinking_process = 0

\* C27: for each main question at most deep_question_max_num follow-up
\* questions are asked: between two consecutive questionOutput steps,
\* deepQuestionOutput runs at most deep_question_max_num times.
C27_FollowUpsBounded ==
  iv.follow_ups <= iv.deep_question_max_num

\* the last allowed follow-up to a main question has been asked and the LLM
\* wants one more
C27_Witness ==
  /\ iv.deep_question_max_num = 2
  /\ iv.follow_ups = 2
  /\ iv.node = "nextStep"
  /\ iv.llm = "follow_up"

\* C28: every interview run terminates normally: each main question of
\* question_plan is output exactly once, in plan order, then next_step = end
\* is reached, and the run is not cut off by the graph's step limit.
C28_TerminatesInPlanOrder ==
  /\ \A k \in 1..Len(iv.asked) : iv.asked[k] = k
  /\ iv.pc = "returned" => Len(iv.asked) = iv.question_plan
  /\ iv.pc # "cut_off"

\* C30: deep_index never exceeds deep_question_max_num in any reachable
\* state, including while a follow-up question is being regenerated after a
\* failed reflection.
C30_DeepIndexBounded ==
  iv.deep_index <= iv.deep_question_max_num

(* ============== two discussions on the same coordinator ================= *)

\* node executions, of both discussions together, that are followed
ConcSteps == 10

\* run_discussion called twice on one ForumAgent: each call builds its own
\* initial_state with its own session id; the agents, the clock and the
\* database table are the same for both
ConcInit ==
  /\ state = InitialState("q", "a", MaxRounds)
  /\ other = Suspended([InitialState("q", "a", MaxRounds) EXCEPT !.session_id = "forum_2"],
                       "rag_critic", 0, [n \in Nodes |-> 0], NoObs)
  /\ replay = Backends(0, InitialState("q", "a", MaxRounds))
  /\ pc = "rag_critic"
  /\ steps = 0
  /\ runs = [n \in Nodes |-> 0]
  /\ db = << >>
  /\ last = NoObs
  /\ clock = 0
  /\ call = NoCall
  /\ critique = NoCritique
  /\ iv = NoInterview

\* the event loop suspends the running discussion at an await and resumes
\* the other one
Switch ==
  /\ other.pc # "none"
  /\ other' = Suspended(state, pc, steps, runs, last)
  /\ state' = other.state
  /\ pc' = other.pc
  /\ steps' = other.steps
  /\ runs' = other.runs
  /\ last' = other.last
  /\ UNCHANGED <<db, clock, replay, call, critique, iv>>

\* the running discussion executes its next node
Resumed == steps + other.steps < ConcSteps

\* the replies followed in the concurrent runs: an LLM call gives a JSON
\* object or raises, retrieval and search return, the moderator's decision
\* is to continue or to converge, the insert succeeds or fails
ConcReply(input) ==
  /\ input.t \in {"ok", "exception", "fail", "dict", "insert_fail"}
  /\ input.ext \in {"returned", "results", "none"}
  /\ input.t = "dict" =>
       /\ input.sc \in {"true", "false"}
       /\ input.ns \in {"rag_critic", "moderator_summarize"}
       /\ input.sp = "moderator"

ConcNext ==
  \/ Resumed /\ rag_critic_node /\ ConcReply(last'.input)
  \/ Resumed /\ web_critic_node /\ ConcReply(last'.input)
  \/ Resumed /\ moderator_decide_node /\ ConcReply(last'.input)
  \/ Resumed /\ moderator_summarize_node /\ ConcReply(last'.input)
  \/ Resumed /\ save_discussion_node /\ ConcReply(last'.input)
  \/ Switch

ConcSpec == ConcInit /\ [][ConcNext]_vars

\* the timestamps of the snapshots in a history
Timestamps(h) == {h[k].timestamp : k \in 1..Len(h)}

\* a history as a discussion running alone builds it: one snapshot per
\* round, in round order
InRoundOrder(h) == \A k \in 1..Len(h) : h[k].round = k

\* C25: two discussions running concurrently on the same coordinator, their
\* steps interleaved in any order, do not interfere: a step of one leaves
\* the other's state as it is, each history holds the discussion's own
\* snapshots only (one per round, none of them in the other's history), and
\* the row a discussion saves holds its own history.
C25_NoInterference ==
  /\ [][ \/ other' = other
         \/ /\ other' = Suspended(state, pc, steps, runs, last)
            /\ state' = other.state
            /\ pc' = other.pc ]_vars
  /\ [](/\ InRoundOrder(state.discussion_history)
        /\ InRoundOrder(other.state.discussion_history)
        /\ Timestamps(state.discussion_history)
             \cap Timestamps(other.state.discussion_history) = {}
        /\ \A i \in 1..Len(db) :
             /\ db[i].session_id = state.session_id
                  => db[i].discussion_history = state.discussion_history
             /\ db[i].session_id = other.state.session_id
                  => db[i].discussion_history = other.state.discussion_history)

\* both discussions have completed a round, the second one while the first
\* one was suspended, and the first one is in its second round
C25_Witness ==
  /\ pc = "moderator_decide"
  /\ state.current_round = 2
  /\ Truthy(state.rag_critic_comment)
  /\ other.pc = "rag_critic"
  /\ Len(state.discussion_history) = 1
  /\ Len(other.state.discussion_history) = 1
  /\ state.discussion_history[1].timestamp < other.state.discussion_history[1].timestamp

====
